---- MODULE Spec2Model ----
(***************************************************************************)
(* Job registry, status store, analysis queue and worker of the Ruga       *)
(* backend (backend/services/job_service.py, analysis_service.py and the   *)
(* call sites in backend/main.py).                                         *)
(***************************************************************************)
EXTENDS Integers, Sequences, FiniteSets, TLC

\* ------------------------------------------------------------------ bounds
\* direct update_job_file_status calls a behaviour makes
MaxUpdates == 3
\* queue_file_analysis calls a behaviour makes
MaxEnqueued == 3
\* cleanup calls a behaviour makes
MaxCleanups == 1

\* ------------------------------------------------------------ value domains
\* AnalysisStatus (models/schemas.py)
ANALYZED == "analyzed"
IN_PROCESS == "in_process"
ERROR == "error"
NOT_FOUND == "not_found"
PENDING == "pending"
AnalysisStatus == {ANALYZED, IN_PROCESS, ERROR, NOT_FOUND, PENDING}

\* Python's None
NoneVal == "None"

\* the uuid4 tokens of the first and the second job created
JobIds == {"j1", "j2"}

\* relative paths under the one root the model uses
Paths == {"a.txt", "b.txt"}

\* error_msg of a None result (process_queue), and str(e) of a raised exception
ReturnedNone == "Processing returned None"
ExceptionMessages == {"boom"}

\* the root directory, and the (root_str, rel_path) keys of the status store
Root == "/r"
Key(rel_path) == <<Root, rel_path>>
Keys == {Key(p) : p \in Paths}

VARIABLES
    jobs,             \* JobService.jobs: job_id -> JobInfo
    job_files,        \* JobService.job_files: job_id -> paths given to create_job
    job_file_status,  \* JobService.job_file_status: job_id -> path -> status
    status,           \* AnalysisService.status: (root_str, rel_path) -> status
    errors,           \* AnalysisService.errors: (root_str, rel_path) -> message
    queue,            \* AnalysisService.queue
    processing,       \* AnalysisService.processing: keys in flight
    lock,             \* AnalysisService.lock: "free" or its holder
    processing_task,  \* AnalysisService.processing_task: None, or where the task stands
    entry,            \* process_queue locals: the entry popped last
    result,           \* process_queue locals: what run_in_executor delivered
    ruga,             \* relative paths whose .ruga file exists under the root
    reader,           \* a get_file_status call waiting for the lock: its rel_path
    reply,            \* what the latest get_file_status call returned
    reached,          \* history: job_id -> {<<path, status>>} terminal statuses ever written
    enqueued,         \* history: queue entry -> number of times it was appended
    invoked,          \* history: queue entries handed to process_file_for_metadata
    last_call,        \* history: arguments of the latest direct update call
    repeat,           \* history: the latest direct update call repeated the one before it
    nupdates,         \* history: number of direct update calls made
    live_tasks,       \* process_queue tasks the event loop holds that have not ended
    executing,        \* relative path -> process_file_for_metadata calls running on it
    outcomes,         \* history: <<queue entry, what the executor delivered for it>>
    late,             \* history: a queue_file_analysis call was made after the worker started
    tickets,          \* history: for each queue entry, the number of the call that appended it
    dequeued,         \* history: number of entries the worker popped
    last_ticket,      \* history: the ticket of the entry popped last
    cleanups,         \* history: number of cleanup calls that cancelled a task
    ncalls,           \* history: relative path -> process_file_for_metadata calls made
    unguarded,        \* history: operations that wrote shared state without taking its lock
    reads,            \* what the latest get_job/list_jobs and get_job_files_status returned
    job_lock,         \* JobService.lock: "free", or "reader" while a read holds it
    job_reader        \* a read of the job registry waiting for JobService.lock

registry == <<jobs, job_files, job_file_status, reached>>
callhist == <<last_call, repeat, nupdates>>
store == <<status, errors, queue, processing, enqueued>>
worker == <<lock, processing_task, entry, result, invoked>>
query == <<reader, reply, job_lock, job_reader>>
taskhist == <<live_tasks, executing, outcomes, late, tickets, dequeued, last_ticket,
              cleanups, ncalls>>
runhist == <<live_tasks, executing, outcomes, late, tickets, dequeued, last_ticket,
             cleanups, ncalls, unguarded, reads>>
vars == <<jobs, job_files, job_file_status, status, errors, queue, processing, lock,
          processing_task, entry, result, ruga, reader, reply, reached, enqueued,
          invoked, last_call, repeat, nupdates, live_tasks, executing, outcomes,
          late, tickets, dequeued, last_ticket, cleanups, ncalls, unguarded, reads,
          job_lock, job_reader>>

\* ------------------------------------------------------------ Job Registry

\* list(self.job_file_status[job_id].values()), as the set all()/any() range over
FileStatuses(fs) == {fs[p] : p \in DOMAIN fs}

\* any error makes the job an error, whatever the other files are at
AggregateStatus_AnyError(S) ==
    IF \A s \in S : s = ANALYZED THEN ANALYZED
    ELSE IF \E s \in S : s = IN_PROCESS THEN IN_PROCESS
    ELSE IF \E s \in S : s = ERROR THEN ERROR
    ELSE PENDING

\* the if/elif chain that sets job.status
AggregateStatus(S) ==
    IF \A s \in S : s = ANALYZED THEN ANALYZED
    ELSE IF \E s \in S : s = IN_PROCESS THEN IN_PROCESS
    ELSE IF \E s \in S : s = ERROR
         THEN IF \A s \in S : s \in {ANALYZED, ERROR} THEN ERROR ELSE IN_PROCESS
    ELSE PENDING

\* self.job_file_status.get(job_id, {}).get(file_path)
PreviousStatus(fs, file_path) ==
    IF file_path \in DOMAIN fs THEN fs[file_path] ELSE NoneVal

\* self.job_file_status[job_id][file_path] = status
SetFileStatus(fs, file_path, st) ==
    [p \in DOMAIN fs \cup {file_path} |-> IF p = file_path THEN st ELSE fs[p]]

\* the counters without the look at the previous status
UpdateJobStatistics_Uncompared(job, previous_status, st) ==
    IF st = ANALYZED
    THEN [job EXCEPT !.files_processed = @ + 1]
    ELSE IF st = ERROR
    THEN [job EXCEPT !.files_failed = @ + 1]
    ELSE job

\* the counters after "Update job statistics"
UpdateJobStatistics(job, previous_status, st) ==
    IF st = ANALYZED /\ previous_status # ANALYZED
    THEN [job EXCEPT !.files_processed = @ + 1]
    ELSE IF st = ERROR /\ previous_status # ERROR
    THEN [job EXCEPT !.files_failed = @ + 1]
    ELSE job

\* the JobInfo with job.status taken from the file statuses as they were
\* before this call's write
UpdatedJob_StaleStatuses(job, fs, file_path, st, error_message) ==
    LET previous_status == PreviousStatus(fs, file_path)
        counted == UpdateJobStatistics(job, previous_status, st)
        aggregated == [counted EXCEPT !.status = AggregateStatus(FileStatuses(fs))]
    IN  IF error_message # NoneVal /\ error_message # ""
        THEN [aggregated EXCEPT !.error_message = error_message]
        ELSE aggregated

\* the JobInfo after one update_job_file_status on a known job; fs is the
\* job's file status map before the call
UpdatedJob(job, fs, file_path, st, error_message) ==
    LET previous_status == PreviousStatus(fs, file_path)
        counted == UpdateJobStatistics(job, previous_status, st)
        file_statuses == FileStatuses(SetFileStatus(fs, file_path, st))
        aggregated == [counted EXCEPT !.status = AggregateStatus(file_statuses)]
    IN  IF error_message # NoneVal /\ error_message # ""
        THEN [aggregated EXCEPT !.error_message = error_message]
        ELSE aggregated

\* an unknown job id is registered on its first report (setdefault)
update_job_file_status_Registers(job_id, file_path, st, error_message) ==
    /\ jobs' = [x \in DOMAIN jobs \cup {job_id} |->
                    IF x = job_id
                    THEN IF job_id \in DOMAIN jobs
                         THEN UpdatedJob(jobs[x], job_file_status[x], file_path, st,
                                         error_message)
                         ELSE [status |-> st, files_queued |-> 1, files_processed |-> 0,
                               files_failed |-> 0, error_message |-> NoneVal]
                    ELSE jobs[x]]
    /\ job_file_status' = [x \in DOMAIN jobs \cup {job_id} |->
                    IF x = job_id
                    THEN IF job_id \in DOMAIN jobs
                         THEN SetFileStatus(job_file_status[x], file_path, st)
                         ELSE [p \in {file_path} |-> st]
                    ELSE job_file_status[x]]
    /\ job_files' = [x \in DOMAIN jobs \cup {job_id} |->
                    IF x \in DOMAIN jobs THEN job_files[x] ELSE {file_path}]
    /\ reached' = [x \in DOMAIN jobs \cup {job_id} |->
                    (IF x \in DOMAIN jobs THEN reached[x] ELSE {})
                    \cup (IF x = job_id /\ st \in {ANALYZED, ERROR}
                          THEN {<<file_path, st>>} ELSE {})]

\* JobService.update_job_file_status
update_job_file_status(job_id, file_path, st, error_message) ==
    IF job_id \notin DOMAIN jobs
    THEN UNCHANGED registry
    ELSE /\ jobs' = [jobs EXCEPT ![job_id] =
                        UpdatedJob(@, job_file_status[job_id], file_path, st, error_message)]
         /\ job_file_status' = [job_file_status EXCEPT ![job_id] =
                        SetFileStatus(@, file_path, st)]
         /\ reached' = [reached EXCEPT ![job_id] =
                        IF st \in {ANALYZED, ERROR} THEN @ \cup {<<file_path, st>>} ELSE @]
         /\ UNCHANGED job_files

\* the status of the new job is taken from the aggregate of its file statuses
NewJobInfo_Aggregated(file_paths) ==
    [status |-> AggregateStatus({PENDING : p \in file_paths}),
     files_queued |-> Cardinality(file_paths),
     files_processed |-> 0,
     files_failed |-> 0,
     error_message |-> NoneVal]

\* the JobInfo create_job builds
NewJobInfo(file_paths) ==
    [status |-> PENDING,
     files_queued |-> Cardinality(file_paths),
     files_processed |-> 0,
     files_failed |-> 0,
     error_message |-> NoneVal]

\* m with key k bound to v (dict item assignment on a new key)
Put(m, k, v) == [x \in DOMAIN m \cup {k} |-> IF x = k THEN v ELSE m[x]]

\* JobService.create_job, for the id uuid4 returns
create_job(job_id, file_paths) ==
    /\ jobs' = Put(jobs, job_id, NewJobInfo(file_paths))
    /\ job_files' = Put(job_files, job_id, file_paths)
    /\ job_file_status' = Put(job_file_status, job_id, [p \in file_paths |-> PENDING])
    /\ reached' = Put(reached, job_id, {})

EmptyMap == [x \in {} |-> NoneVal]

\* no direct update call made yet
NoCall == [job_id |-> NoneVal, file_path |-> NoneVal, status |-> NoneVal,
           error_message |-> NoneVal, known |-> FALSE]

\* no entry popped yet
NoEntry == [job_id |-> NoneVal, rel_path |-> NoneVal, had_ruga |-> FALSE]

\* no get_file_status call is waiting for the lock
NoReader == [rel_path |-> NoneVal, has_ruga |-> FALSE]

\* no get_file_status call returned yet
NoReply == [rel_path |-> NoneVal, has_ruga |-> FALSE, status |-> NoneVal,
            error_msg |-> NoneVal]

\* no read of the job registry returned yet: the JobInfo objects returned
\* (job id -> their fields when they were returned), the file status copy
\* returned (job id -> copy), and whether the latest list_jobs raised
NoReads == [seen |-> EmptyMap, files |-> EmptyMap, raised |-> FALSE]

\* JobService.__init__ and AnalysisService.__init__, over a root with no .ruga file yet
Init ==
    /\ jobs = EmptyMap
    /\ job_files = EmptyMap
    /\ job_file_status = EmptyMap
    /\ status = EmptyMap
    /\ errors = EmptyMap
    /\ queue = <<>>
    /\ processing = {}
    /\ lock = "free"
    /\ processing_task = NoneVal
    /\ entry = NoEntry
    /\ result = NoneVal
    /\ ruga = {}
    /\ reader = NoReader
    /\ reply = NoReply
    /\ reached = EmptyMap
    /\ enqueued = EmptyMap
    /\ invoked = {}
    /\ last_call = NoCall
    /\ repeat = FALSE
    /\ nupdates = 0
    /\ live_tasks = 0
    /\ executing = EmptyMap
    /\ outcomes = {}
    /\ late = FALSE
    /\ tickets = <<>>
    /\ dequeued = 0
    /\ last_ticket = 0
    /\ cleanups = 0
    /\ ncalls = EmptyMap
    /\ unguarded = {}
    /\ reads = NoReads
    /\ job_lock = "free"
    /\ job_reader = NoneVal

\* ------------------------------------------- the registry under direct calls

\* a consumer creates the first job, over a set of distinct relative paths
CreateJob ==
    \E file_paths \in SUBSET Paths :
        /\ jobs = EmptyMap
        /\ create_job("j1", file_paths)
        /\ unguarded' = unguarded \cup {"create_job"}
        /\ UNCHANGED <<store, worker, ruga, query, callhist, taskhist, reads>>

\* a consumer creates a second job next to the first
CreateAnotherJob ==
    \E file_paths \in SUBSET Paths :
        /\ DOMAIN jobs = {"j1"}
        /\ create_job("j2", file_paths)
        /\ unguarded' = unguarded \cup {"create_job"}
        /\ UNCHANGED <<store, worker, ruga, query, callhist, taskhist, reads>>

\* a caller reports a status for a path of a job, known or not; a message
\* comes with an error report only
UpdateFileStatus ==
    \E job_id \in JobIds, file_path \in Paths, st \in AnalysisStatus,
       error_message \in {NoneVal} \cup ExceptionMessages :
        /\ nupdates < MaxUpdates
        /\ error_message # NoneVal => st = ERROR
        /\ update_job_file_status(job_id, file_path, st, error_message)
        /\ last_call' = [job_id |-> job_id, file_path |-> file_path,
                         status |-> st, error_message |-> error_message,
                         known |-> job_id \in DOMAIN jobs]
        /\ repeat' = (last_call' = last_call)
        /\ nupdates' = nupdates + 1
        /\ UNCHANGED <<store, worker, ruga, query, runhist>>

RegistryNext == CreateJob \/ CreateAnotherJob \/ UpdateFileStatus

RegistrySpec == Init /\ [][RegistryNext]_vars

\* ------------------------------------------------ properties of the registry

\* the aggregation as the four ordered rules give it
FourRules(S) ==
    IF S # {} /\ S \subseteq {ANALYZED} THEN ANALYZED
    ELSE IF IN_PROCESS \in S THEN IN_PROCESS
    ELSE IF ERROR \in S
         THEN IF S \subseteq {ANALYZED, ERROR} THEN ERROR ELSE IN_PROCESS
    ELSE PENDING

\* C1: after every update_job_file_status call on a known job, job.status is
\* the aggregate of the job's current per-file statuses by the four ordered
\* rules (all Analyzed and non-empty; any InProcess; any Error, an error only
\* when every file is Analyzed or Error; else Pending).
C1_StatusIsAggregate ==
    \A j \in DOMAIN jobs :
        jobs[j].status = FourRules(FileStatuses(job_file_status[j]))

\* an update has just left a job at InProcess with an Error next to a Pending
C1_Witness ==
    /\ last_call.known
    /\ last_call.status = ERROR
    /\ FileStatuses(job_file_status[last_call.job_id]) = {ERROR, PENDING}
    /\ jobs[last_call.job_id].status = IN_PROCESS

\* C2: two sequences of update calls that leave every path with the same
\* final status leave the same job.status: two jobs whose file status maps
\* are equal have equal statuses, whatever calls each received.
C2_OrderIndependent ==
    \A j1, j2 \in DOMAIN jobs :
        job_file_status[j1] = job_file_status[j2] => jobs[j1].status = jobs[j2].status

\* two jobs stand at the same snapshot after different histories of reports
C2_Witness ==
    /\ DOMAIN jobs = JobIds
    /\ job_file_status["j1"] = job_file_status["j2"]
    /\ reached["j1"] # reached["j2"]
    /\ jobs["j1"].status \in {ANALYZED, ERROR}

\* the paths of job j that were reported st at least once
PathsReached(j, st) == {p \in Paths : <<p, st>> \in reached[j]}

\* C3: files_processed is at most the number of distinct paths of the job
\* that were Analyzed at least once, after any sequence of update calls.
C3_ProcessedWithinAnalyzedPaths ==
    \A j \in DOMAIN jobs :
        jobs[j].files_processed <= Cardinality(PathsReached(j, ANALYZED))

\* C4: files_failed and files_processed each grow by at most one per path
\* over the job's lifetime, also when the worker reports for a path that is
\* in the queue more than once.
C4_CountedOncePerPath ==
    \A j \in DOMAIN jobs :
        /\ jobs[j].files_failed <= Cardinality(PathsReached(j, ERROR))
        /\ jobs[j].files_processed <= Cardinality(PathsReached(j, ANALYZED))

\* C5: update_job_file_status(job, path, Analyzed) called a second time in a
\* row for the same path of a known job changes neither the counters, the
\* file statuses nor job.status.
C5_SecondAnalyzedChangesNothing ==
    [][(/\ nupdates' = nupdates + 1
        /\ last_call' = last_call
        /\ last_call.known
        /\ last_call.status = ANALYZED
        /\ last_call.error_message = NoneVal)
       => (jobs' = jobs /\ job_file_status' = job_file_status)]_vars

\* the same Analyzed report was made twice in a row and counted once
C5_Witness ==
    /\ repeat
    /\ last_call.known
    /\ last_call.status = ANALYZED
    /\ last_call.error_message = NoneVal
    /\ jobs[last_call.job_id].files_processed = 1

\* C6: the keys of a job's file statuses are the paths given to create_job,
\* in every reachable state, whatever path an update call names.
C6_FileSetFixed ==
    \A j \in DOMAIN jobs : DOMAIN job_file_status[j] = job_files[j]

\* ------------------------------------------------- Analysis Queue & Worker

\* has_ruga_metadata(file_path) for the file at rel_path under the root
\* C18: update_job_file_status with a job_id the registry does not know
\* changes nothing in the registry (and raises nothing: the call returns).
C18_UnknownJobIsNoOp ==
    [][(nupdates' = nupdates + 1 /\ ~last_call'.known)
       => UNCHANGED <<jobs, job_files, job_file_status>>]_vars

\* a report for the unknown job "j2" was made while job "j1" is registered
C18_Witness ==
    /\ DOMAIN jobs = {"j1"}
    /\ job_files["j1"] # {}
    /\ last_call.job_id = "j2"
    /\ ~last_call.known
    /\ last_call.status = ERROR
    /\ last_call.error_message = "boom"

\* C19: create_job registers the job under an id no existing job has, with
\* status Pending, every given path Pending, counters 0 and files_queued the
\* number of paths, and leaves every job that existed before unchanged.
C19_CreateJobFresh ==
    [][nupdates' = nupdates
       => \E id \in JobIds \ DOMAIN jobs :
             /\ DOMAIN jobs' = DOMAIN jobs \cup {id}
             /\ DOMAIN job_files' = DOMAIN jobs'
             /\ DOMAIN job_file_status' = DOMAIN jobs'
             /\ jobs'[id].status = PENDING
             /\ jobs'[id].files_processed = 0
             /\ jobs'[id].files_failed = 0
             /\ jobs'[id].files_queued = Cardinality(job_files'[id])
             /\ job_file_status'[id] = [p \in job_files'[id] |-> PENDING]
             /\ \A j \in DOMAIN jobs :
                    /\ jobs'[j] = jobs[j]
                    /\ job_files'[j] = job_files[j]
                    /\ job_file_status'[j] = job_file_status[j]]_vars

\* a second job over both paths was created next to a first job that had
\* already counted a failure
C19_Witness ==
    /\ DOMAIN jobs = {"j1", "j2"}
    /\ jobs["j1"].files_failed = 1
    /\ jobs["j1"].status = ERROR
    /\ job_files["j2"] = Paths
    /\ jobs["j2"] = [status |-> PENDING, files_queued |-> 2, files_processed |-> 0,
                     files_failed |-> 0, error_message |-> NoneVal]
    /\ job_file_status["j2"] = [p \in Paths |-> PENDING]

has_ruga_metadata(rel_path) == rel_path \in ruga

\* m without key k (del m[k] when present)
Drop(m, k) == [x \in DOMAIN m \ {k} |-> m[x]]

\* a bag with one more, and with one fewer, occurrence of k
More(bag, k) == Put(bag, k, IF k \in DOMAIN bag THEN bag[k] + 1 ELSE 1)
Fewer(bag, k) == IF bag[k] = 1 THEN Drop(bag, k) ELSE Put(bag, k, bag[k] - 1)

\* the job is told the status and never the message
ReportToJob_NoMessage(job_id, rel_path, st, error_msg) ==
    IF job_id # NoneVal
    THEN update_job_file_status(job_id, rel_path, st, NoneVal)
    ELSE UNCHANGED registry

\* the job update the worker awaits "if job_id and self.job_service"
ReportToJob(job_id, rel_path, st, error_msg) ==
    IF job_id # NoneVal
    THEN update_job_file_status(job_id, rel_path, st, error_msg)
    ELSE UNCHANGED registry

\* a file whose key is in the in-flight set is not queued again
queue_file_analysis_SkipsInFlight(rel_path, job_id) ==
    LET e == [job_id |-> job_id, rel_path |-> rel_path,
              had_ruga |-> has_ruga_metadata(rel_path)]
    IN  /\ status' = IF Key(rel_path) \in processing THEN status
                     ELSE Put(status, Key(rel_path), PENDING)
        /\ queue' = IF Key(rel_path) \in processing THEN queue ELSE Append(queue, e)
        /\ enqueued' = Put(enqueued, e, IF e \in DOMAIN enqueued THEN enqueued[e] + 1 ELSE 1)
        /\ UNCHANGED <<errors, processing>>

\* AnalysisService.queue_file_analysis
queue_file_analysis(rel_path, job_id) ==
    LET e == [job_id |-> job_id, rel_path |-> rel_path,
              had_ruga |-> has_ruga_metadata(rel_path)]
    IN  /\ status' = Put(status, Key(rel_path), PENDING)
        /\ queue' = Append(queue, e)
        /\ enqueued' = Put(enqueued, e, IF e \in DOMAIN enqueued THEN enqueued[e] + 1 ELSE 1)
        /\ UNCHANGED <<errors, processing>>

\* the number of queue_file_analysis calls made so far
RECURSIVE Total(_)
Total(bag) ==
    IF DOMAIN bag = {} THEN 0
    ELSE LET e == CHOOSE x \in DOMAIN bag : TRUE
         IN  bag[e] + Total([x \in DOMAIN bag \ {e} |-> bag[x]])

\* a consumer queues a file, alone or as one of the files of a job it created
Enqueue ==
    \E rel_path \in Paths, job_id \in {NoneVal} \cup DOMAIN jobs :
        /\ Total(enqueued) < MaxEnqueued
        /\ job_id # NoneVal => rel_path \in job_files[job_id]
        /\ queue_file_analysis(rel_path, job_id)
        /\ late' = (late \/ processing_task # NoneVal)
        /\ tickets' = Append(tickets, Total(enqueued) + 1)
        /\ unguarded' = unguarded \cup {"queue_file_analysis"}
        /\ UNCHANGED <<registry, worker, ruga, query, callhist, live_tasks, executing,
                       outcomes, dequeued, last_ticket, cleanups, ncalls, reads>>

\* a task is created whatever stands in processing_task
NoLiveTask_Always(task) == TRUE

\* "processing_task is None or processing_task.done()"
NoLiveTask(task) == task = NoneVal \/ task = "done"

\* "Start background processing if not already running" (analyze_folder, analyze_file)
StartWorker ==
    /\ NoLiveTask(processing_task)
    /\ processing_task' = "loop"
    /\ live_tasks' = live_tasks + 1
    /\ UNCHANGED <<registry, store, lock, entry, result, invoked, ruga, query, callhist,
                   executing, outcomes, late, tickets, dequeued, last_ticket, cleanups, ncalls, unguarded, reads>>

\* process_queue, top of the loop with an empty queue: sleep inside the lock
WorkerIdle ==
    /\ processing_task = "loop"
    /\ lock = "free"
    /\ queue = <<>>
    /\ lock' = "worker"
    /\ processing_task' = "sleep"
    /\ UNCHANGED <<registry, store, entry, result, invoked, ruga, query, callhist, runhist>>

\* process_queue: asyncio.sleep(1) is over, continue leaves the lock
WorkerWake ==
    /\ processing_task = "sleep"
    /\ lock' = "free"
    /\ processing_task' = "loop"
    /\ UNCHANGED <<registry, store, entry, result, invoked, ruga, query, callhist, runhist>>

\* the entry of a file with a .ruga file is left behind like one in flight
AfterPop_RugaSkipped(e) ==
    IF Key(e.rel_path) \in processing THEN "loop"
    ELSE IF has_ruga_metadata(e.rel_path) THEN "loop"
    ELSE "mark_processing"

\* the .ruga file is not looked for
AfterPop_RugaUnchecked(e) ==
    IF Key(e.rel_path) \in processing THEN "loop"
    ELSE "mark_processing"

\* where the worker goes with the entry it popped
AfterPop(e) ==
    IF Key(e.rel_path) \in processing THEN "loop"
    ELSE IF has_ruga_metadata(e.rel_path) THEN "mark_analyzed"
    ELSE "mark_processing"

\* the entry appended last is popped (queue.pop())
PopIndex_Last(q) == Len(q)

\* the position self.queue.pop(0) takes its entry from
PopIndex(q) == 1

\* q after q.pop(i - 1)
Without(q, i) == SubSeq(q, 1, i - 1) \o SubSeq(q, i + 1, Len(q))

\* process_queue: pop the head under the lock, then the in-flight and .ruga checks
WorkerDequeue ==
    /\ processing_task = "loop"
    /\ lock = "free"
    /\ queue # <<>>
    /\ queue' = Without(queue, PopIndex(queue))
    /\ processing_task' = AfterPop(queue[PopIndex(queue)])
    /\ entry' = IF AfterPop(queue[PopIndex(queue)]) = "loop" THEN NoEntry
                ELSE queue[PopIndex(queue)]
    /\ tickets' = Without(tickets, PopIndex(queue))
    /\ dequeued' = dequeued + 1
    /\ last_ticket' = tickets[PopIndex(queue)]
    /\ UNCHANGED <<registry, status, errors, processing, enqueued, lock, result, invoked,
                   ruga, query, callhist, live_tasks, executing, outcomes, late, cleanups, ncalls, unguarded, reads>>

\* process_queue: the file already has its .ruga file
WorkerMarkAnalyzed ==
    /\ processing_task = "mark_analyzed"
    /\ lock = "free"
    /\ status' = Put(status, Key(entry.rel_path), ANALYZED)
    /\ ReportToJob(entry.job_id, entry.rel_path, ANALYZED, NoneVal)
    /\ processing_task' = "loop"
    /\ entry' = NoEntry
    /\ UNCHANGED <<errors, queue, processing, enqueued, lock, result, invoked, ruga,
                   query, callhist, runhist>>

\* the file is handed to the executor inside "async with self.lock"
WorkerMarkProcessing_InsideLock ==
    /\ processing_task = "mark_processing"
    /\ lock = "free"
    /\ lock' = "worker"
    /\ processing' = processing \cup {Key(entry.rel_path)}
    /\ status' = Put(status, Key(entry.rel_path), IN_PROCESS)
    /\ ReportToJob(entry.job_id, entry.rel_path, IN_PROCESS, NoneVal)
    /\ invoked' = invoked \cup {entry}
    /\ processing_task' = "executor"
    /\ executing' = More(executing, entry.rel_path)
    /\ ncalls' = More(ncalls, entry.rel_path)
    /\ UNCHANGED <<errors, queue, enqueued, entry, result, ruga, query, callhist,
                   live_tasks, outcomes, late, tickets, dequeued, last_ticket, cleanups,
                   unguarded, reads>>

\* process_queue: "Mark as processing", then hand the file to the executor
WorkerMarkProcessing ==
    /\ processing_task = "mark_processing"
    /\ lock = "free"
    /\ processing' = processing \cup {Key(entry.rel_path)}
    /\ status' = Put(status, Key(entry.rel_path), IN_PROCESS)
    /\ ReportToJob(entry.job_id, entry.rel_path, IN_PROCESS, NoneVal)
    /\ invoked' = invoked \cup {entry}
    /\ processing_task' = "executor"
    /\ executing' = More(executing, entry.rel_path)
    /\ ncalls' = More(ncalls, entry.rel_path)
    /\ UNCHANGED <<errors, queue, enqueued, lock, entry, result, ruga, query, callhist,
                   live_tasks, outcomes, late, tickets, dequeued, last_ticket, cleanups,
                   unguarded, reads>>

\* process_file_for_metadata in the executor thread comes to its end with one
\* of the given outcomes: a record after saving the .ruga file, None, or an
\* exception with its message
ExtractorOver(given) ==
    \E outcome \in given :
        /\ processing_task = "executor"
        /\ result' = outcome
        /\ ruga' = IF outcome = "record" THEN ruga \cup {entry.rel_path} ELSE ruga
        /\ processing_task' = "result"
        /\ executing' = Fewer(executing, entry.rel_path)
        /\ outcomes' = outcomes \cup {<<entry, outcome>>}
        /\ UNCHANGED <<registry, store, lock, entry, invoked, query, callhist,
                       live_tasks, late, tickets, dequeued, last_ticket, cleanups,
                       ncalls, unguarded, reads>>

\* process_file_for_metadata in the executor thread: a record after saving the
\* .ruga file, None, or an exception
Extractor == ExtractorOver({"record", ReturnedNone} \cup ExceptionMessages)

\* the same call where the exception may also have an empty str(e), as
\* Exception() or asyncio.TimeoutError() have
ExtractorAnyMessage == ExtractorOver({"record", ReturnedNone, ""} \cup ExceptionMessages)

\* a success leaves the message of an earlier failure in the error map
WorkerRecord_KeepsError ==
    /\ processing_task = "result"
    /\ lock = "free"
    /\ IF result = "record"
       THEN /\ status' = Put(status, Key(entry.rel_path), ANALYZED)
            /\ errors' = errors
            /\ ReportToJob(entry.job_id, entry.rel_path, ANALYZED, NoneVal)
       ELSE /\ status' = Put(status, Key(entry.rel_path), ERROR)
            /\ errors' = Put(errors, Key(entry.rel_path), result)
            /\ ReportToJob(entry.job_id, entry.rel_path, ERROR, result)
    /\ processing_task' = "finally"
    /\ UNCHANGED <<queue, processing, enqueued, lock, entry, result, invoked, ruga,
                   query, callhist, runhist>>

\* after a failure the file is handed to the executor once more
WorkerRecord_Retries ==
    /\ processing_task = "result"
    /\ lock = "free"
    /\ IF result = "record"
       THEN /\ status' = Put(status, Key(entry.rel_path), ANALYZED)
            /\ errors' = Drop(errors, Key(entry.rel_path))
            /\ ReportToJob(entry.job_id, entry.rel_path, ANALYZED, NoneVal)
            /\ processing_task' = "finally"
            /\ UNCHANGED processing
       ELSE /\ status' = Put(status, Key(entry.rel_path), ERROR)
            /\ errors' = Put(errors, Key(entry.rel_path), result)
            /\ ReportToJob(entry.job_id, entry.rel_path, ERROR, result)
            /\ processing' = processing \ {Key(entry.rel_path)}
            /\ processing_task' = "mark_processing"
    /\ UNCHANGED <<queue, enqueued, lock, entry, result, invoked, ruga, query, callhist,
                   runhist>>

\* an exception of the executor is not caught: only the finally clause runs
\* and the task ends
WorkerRecord_Reraises ==
    /\ processing_task = "result"
    /\ lock = "free"
    /\ IF result = "record"
       THEN /\ status' = Put(status, Key(entry.rel_path), ANALYZED)
            /\ errors' = Drop(errors, Key(entry.rel_path))
            /\ ReportToJob(entry.job_id, entry.rel_path, ANALYZED, NoneVal)
            /\ processing_task' = "finally"
            /\ UNCHANGED <<processing, live_tasks>>
       ELSE IF result = ReturnedNone
       THEN /\ status' = Put(status, Key(entry.rel_path), ERROR)
            /\ errors' = Put(errors, Key(entry.rel_path), result)
            /\ ReportToJob(entry.job_id, entry.rel_path, ERROR, result)
            /\ processing_task' = "finally"
            /\ UNCHANGED <<processing, live_tasks>>
       ELSE /\ processing' = processing \ {Key(entry.rel_path)}
            /\ processing_task' = "done"
            /\ live_tasks' = live_tasks - 1
            /\ UNCHANGED <<registry, status, errors>>
    /\ UNCHANGED <<queue, enqueued, lock, entry, result, invoked, ruga, query, callhist,
                   executing, outcomes, late, tickets, dequeued, last_ticket, cleanups, ncalls, unguarded, reads>>

\* process_queue: record what the executor delivered, in the store and the job
WorkerRecord ==
    /\ processing_task = "result"
    /\ lock = "free"
    /\ IF result = "record"
       THEN /\ status' = Put(status, Key(entry.rel_path), ANALYZED)
            /\ errors' = Drop(errors, Key(entry.rel_path))
            /\ ReportToJob(entry.job_id, entry.rel_path, ANALYZED, NoneVal)
       ELSE /\ status' = Put(status, Key(entry.rel_path), ERROR)
            /\ errors' = Put(errors, Key(entry.rel_path), result)
            /\ ReportToJob(entry.job_id, entry.rel_path, ERROR, result)
    /\ processing_task' = "finally"
    /\ UNCHANGED <<queue, processing, enqueued, lock, entry, result, invoked, ruga,
                   query, callhist, runhist>>

\* the key stays in the in-flight set
WorkerFinally_KeepsKey ==
    /\ processing_task = "finally"
    /\ lock = "free"
    /\ processing_task' = "loop"
    /\ entry' = NoEntry
    /\ result' = NoneVal
    /\ UNCHANGED <<registry, store, lock, invoked, ruga, query, callhist, runhist>>

\* process_queue: finally, discard the key from the in-flight set
WorkerFinally ==
    /\ processing_task = "finally"
    /\ lock = "free"
    /\ processing' = processing \ {Key(entry.rel_path)}
    /\ processing_task' = "loop"
    /\ entry' = NoEntry
    /\ result' = NoneVal
    /\ UNCHANGED <<registry, status, errors, queue, enqueued, lock, invoked, ruga,
                   query, callhist, runhist>>

\* a run of examples/process_folder.py over the root saves a .ruga file
ProcessFolder ==
    \E rel_path \in Paths \ ruga :
        /\ ruga' = ruga \cup {rel_path}
        /\ UNCHANGED <<registry, store, worker, query, callhist, runhist>>

Next ==
    \/ CreateJob
    \/ Enqueue
    \/ StartWorker
    \/ WorkerIdle
    \/ WorkerWake
    \/ WorkerDequeue
    \/ WorkerMarkAnalyzed
    \/ WorkerMarkProcessing
    \/ Extractor
    \/ WorkerRecord
    \/ WorkerFinally
    \/ ProcessFolder

Spec == Init /\ [][Next]_vars

\* the steps of the process_queue task and of the executor thread it awaits
WorkerStep ==
    \/ WorkerIdle
    \/ WorkerWake
    \/ WorkerDequeue
    \/ WorkerMarkAnalyzed
    \/ WorkerMarkProcessing
    \/ Extractor
    \/ WorkerRecord
    \/ WorkerFinally

\* the event loop runs the worker task whenever it can go on, the one-second
\* sleep ends, and a process_file_for_metadata call returns or raises
FairSpec == Spec /\ WF_vars(WorkerStep)

\* ------------------------------------------------- properties of the worker

\* the worker has emptied the queue and is back at the top of its loop or idle
Drained ==
    /\ processing_task \in {"loop", "sleep"}
    /\ queue = <<>>

\* C7: once the worker has drained the queue and is idle, every key that was
\* enqueued has status Analyzed or Error in the status store; none is left
\* Pending or InProcess.
C7_DrainedIsTerminal ==
    Drained =>
        \A e \in DOMAIN enqueued :
            /\ Key(e.rel_path) \in DOMAIN status
            /\ status[Key(e.rel_path)] \in {ANALYZED, ERROR}

\* three entries were enqueued and processed, ending in both terminal statuses
C7_Witness ==
    /\ Drained
    /\ Total(enqueued) = MaxEnqueued
    /\ DOMAIN status = Keys
    /\ \E k \in Keys : status[k] = ANALYZED
    /\ \E k \in Keys : status[k] = ERROR

\* C8: an entry enqueued while its file had a .ruga file is never handed to
\* process_file_for_metadata, and once the queue is drained its file is
\* Analyzed in the status store and in the job the entry names.
C8_RugaNeverExtracted ==
    /\ \A e \in invoked : ~e.had_ruga
    /\ Drained =>
        \A e \in DOMAIN enqueued :
            e.had_ruga =>
                /\ status[Key(e.rel_path)] = ANALYZED
                /\ e.job_id # NoneVal =>
                       job_file_status[e.job_id][e.rel_path] = ANALYZED

\* after a failed extraction the file got its .ruga file and was enqueued
\* again, for a job; the queue is drained
C8_Witness ==
    /\ Drained
    /\ \E e \in DOMAIN enqueued :
        /\ e.had_ruga
        /\ e.job_id # NoneVal
        /\ Key(e.rel_path) \in DOMAIN errors
        /\ \E f \in invoked : f.rel_path = e.rel_path

\* the entries appended for path p with the id of job j
JobEntries(j, p) == {e \in DOMAIN enqueued : e.job_id = j /\ e.rel_path = p}

\* every path of job j was enqueued exactly once with the job's id
EnqueuedOnce(j) ==
    \A p \in job_files[j] :
        /\ Cardinality(JobEntries(j, p)) = 1
        /\ \A e \in JobEntries(j, p) : enqueued[e] = 1

\* the messages of the failures the executor delivered for path p of job j
Failures(j, p) ==
    {m \in {ReturnedNone} \cup ExceptionMessages :
        \E e \in JobEntries(j, p) : <<e, m>> \in outcomes}

TimesEnqueued(j, p) == Total([e \in JobEntries(j, p) |-> enqueued[e]])

\* C12: when the same file is enqueued twice with the same job id before the
\* worker is started and nothing else is enqueued, then once both entries are
\* processed the in-flight set is empty, the path is counted once
\* (files_processed + files_failed = 1) and its status is Analyzed or Error,
\* whatever the extractor delivered.
C12_DuplicateCountedOnce ==
    \A j \in DOMAIN jobs : \A p \in job_files[j] :
        (Drained /\ ~late /\ TimesEnqueued(j, p) = 2 /\ Total(enqueued) = 2) =>
            /\ processing = {}
            /\ jobs[j].files_processed + jobs[j].files_failed = 1
            /\ job_file_status[j][p] \in {ANALYZED, ERROR}

\* C13: the queue is strictly first-in first-out: the k-th entry the worker
\* pops is the k-th entry appended, the queue holds the later ones in the
\* order they were appended, and whenever the worker stands where it pops an
\* entry the processing of every earlier one (fast path included) is over,
\* under any interleaving of enqueue calls with worker steps.
C13_StrictFifo ==
    /\ last_ticket = dequeued
    /\ Len(tickets) = Len(queue)
    /\ \A i \in 1..Len(tickets) : tickets[i] = dequeued + i
    /\ processing_task \in {NoneVal, "loop", "sleep"} =>
           entry = NoEntry /\ processing = {}

\* the second entry is in the executor while a third, appended after the
\* worker started, waits behind it
C13_Witness ==
    /\ processing_task = "executor"
    /\ dequeued = 2
    /\ last_ticket = 2
    /\ late
    /\ tickets = <<3>>

\* the executor delivered a failure for the current entry, and n entries
\* have been appended so far
FailureDelivered(n) ==
    /\ processing_task = "result"
    /\ result # "record"
    /\ Total(enqueued) = n

\* C17: a failed extraction (None returned or an exception raised) never ends
\* the worker loop: the file is recorded as Error, and every entry that was
\* in the queue behind the failing one is eventually popped and processed.
C17_FailureDoesNotStopWorker ==
    /\ [][(processing_task = "result" /\ result # "record" /\ processing_task' # "result")
            => /\ processing_task' = "finally"
               /\ status'[Key(entry.rel_path)] = ERROR
               /\ errors'[Key(entry.rel_path)] = result]_vars
    /\ \A n \in 1..MaxEnqueued :
           FailureDelivered(n) ~>
               (dequeued >= n /\ processing_task \in {"loop", "sleep"})

\* after a raised exception the worker has popped and processed the entry
\* that waited behind the failing one
C17_Witness ==
    /\ processing_task = "result"
    /\ dequeued = 2
    /\ \E e \in DOMAIN enqueued :
           /\ e.rel_path # entry.rel_path
           /\ outcomes = {<<e, "boom">>, <<entry, result>>}
           /\ status[Key(e.rel_path)] = ERROR
           /\ errors[Key(e.rel_path)] = "boom"

\* C20: within a job, once a path's status is Analyzed or Error no step
\* changes it to a different status, whatever enqueue calls and worker steps
\* follow (the same file enqueued again with the same job id included).
C20_TerminalStatusStays ==
    [][\A j \in DOMAIN jobs : \A p \in DOMAIN job_file_status[j] :
          job_file_status[j][p] \in {ANALYZED, ERROR}
              => job_file_status'[j][p] = job_file_status[j][p]]_vars

\* C21: queue_file_analysis, in any state (no worker yet, or the same key in
\* the executor), sets the store's status of the key to Pending and appends
\* exactly one entry at the tail of the queue; the statuses of other keys,
\* the error map, the in-flight set, the job registry and the entries
\* already queued stay as they were.
C21_EnqueueFrame ==
    [][Total(enqueued') = Total(enqueued) + 1
       => /\ Len(queue') = Len(queue) + 1
          /\ SubSeq(queue', 1, Len(queue)) = queue
          /\ status' = Put(status, Key(queue'[Len(queue')].rel_path), PENDING)
          /\ UNCHANGED <<errors, processing, jobs, job_files, job_file_status>>]_vars

\* the file in the executor was enqueued again: Pending in the store, its
\* key in flight, its new entry last in the queue behind an older one
C21_Witness ==
    /\ processing_task = "executor"
    /\ Key(entry.rel_path) \in processing
    /\ status[Key(entry.rel_path)] = PENDING
    /\ Len(queue) = 2
    /\ queue[2].rel_path = entry.rel_path
    /\ queue[1].rel_path # entry.rel_path
    /\ tickets = <<2, 3>>

\* the number of times relative path p was appended, with any job id or none
TimesKeyEnqueued(p) ==
    Total([e \in {x \in DOMAIN enqueued : x.rel_path = p} |-> enqueued[e]])

\* the number of process_file_for_metadata calls made for relative path p
Calls(p) == IF p \in DOMAIN ncalls THEN ncalls[p] ELSE 0

\* C22: a failed extraction is never retried by the worker: the extractor is
\* called at most once per queue entry, so the calls made for a key never
\* exceed the number of times the key was enqueued (nor all calls the
\* entries popped), and the worker puts no entry back: the queue holds
\* exactly the entries appended and not yet popped.
C22_NoAutomaticRetry ==
    /\ \A p \in Paths : Calls(p) <= TimesKeyEnqueued(p)
    /\ Total(ncalls) <= dequeued
    /\ Len(queue) + dequeued = Total(enqueued)

\* a file enqueued once failed, the worker drained the queue, and the
\* extractor was called once for it
C22_Witness ==
    /\ Drained
    /\ \E p \in Paths :
           /\ TimesKeyEnqueued(p) = 1
           /\ Calls(p) = 1
           /\ Key(p) \in DOMAIN errors
           /\ status[Key(p)] = ERROR
           /\ p \notin ruga
    /\ dequeued = Total(enqueued)

\* C31: in every reachable state a job's status is Analyzed or Error only if
\* every file of the job is Analyzed or Error, and it is Analyzed exactly
\* when the job has files and every one is Analyzed; so a caller polling
\* job.status for a terminal value (get_job hands out the registry's JobInfo)
\* never sees one while a file of the job is still Pending or InProcess.
C31_TerminalJobHasTerminalFiles ==
    \A j \in DOMAIN jobs :
        LET S == FileStatuses(job_file_status[j])
        IN  /\ job_files[j] \subseteq DOMAIN job_file_status[j]
            /\ jobs[j].status \in {ANALYZED, ERROR} => S \subseteq {ANALYZED, ERROR}
            /\ jobs[j].status = ANALYZED
                   <=> (DOMAIN job_file_status[j] # {} /\ S \subseteq {ANALYZED})

\* one file of the job has failed and the other is still Pending in the
\* queue: the job says InProcess, not Error
C31_Witness ==
    /\ processing_task = "finally"
    /\ "j1" \in DOMAIN jobs
    /\ job_files["j1"] = Paths
    /\ job_file_status["j1"][entry.rel_path] = ERROR
    /\ \E p \in Paths : job_file_status["j1"][p] = PENDING
    /\ jobs["j1"].files_failed = 1
    /\ jobs["j1"].status = IN_PROCESS
    /\ queue # <<>>

\* C32: a job created with an empty path list keeps status Pending (never
\* Analyzed) and zero counters in every reachable state: no entry is
\* enqueued with its id, and the worker reports to a job only for entries
\* that carry the job's id.
C32_EmptyJobStaysPending ==
    \A j \in DOMAIN jobs :
        job_files[j] = {} =>
            /\ \A e \in DOMAIN enqueued : e.job_id # j
            /\ job_file_status[j] = EmptyMap
            /\ jobs[j] = [status |-> PENDING, files_queued |-> 0, files_processed |-> 0,
                          files_failed |-> 0, error_message |-> NoneVal]

\* the worker has processed files, one to Analyzed and one to Error, while
\* a job over no files is registered
C32_Witness ==
    /\ "j1" \in DOMAIN jobs
    /\ job_files["j1"] = {}
    /\ jobs["j1"].status = PENDING
    /\ Drained
    /\ dequeued >= 2
    /\ \E k \in Keys : k \in DOMAIN status /\ status[k] = ANALYZED
    /\ \E k \in Keys : k \in DOMAIN status /\ status[k] = ERROR

\* C33: for a job over distinct paths, as long as no path was enqueued more
\* than once with the job's id, files_processed + files_failed is at most
\* files_queued in every reachable state, and the two are equal once every
\* path was enqueued and the worker has drained the queue.
C33_CountersWithinQueued ==
    \A j \in DOMAIN jobs :
        /\ jobs[j].files_queued = Cardinality(job_files[j])
        /\ (\A p \in job_files[j] : TimesEnqueued(j, p) <= 1)
               => jobs[j].files_processed + jobs[j].files_failed <= jobs[j].files_queued
        /\ (Drained /\ EnqueuedOnce(j))
               => jobs[j].files_processed + jobs[j].files_failed = jobs[j].files_queued

\* the first file of a job over two files has failed and is counted, the
\* second is in the executor: one of two files_queued is accounted for
C33_Witness ==
    /\ processing_task = "executor"
    /\ entry.job_id = "j1"
    /\ job_files["j1"] = Paths
    /\ EnqueuedOnce("j1")
    /\ dequeued = 2
    /\ jobs["j1"].files_queued = 2
    /\ jobs["j1"].files_failed = 1
    /\ jobs["j1"].files_processed = 0

\* C34: once a job's status has left Pending (a file of it was reported
\* InProcess, Analyzed or Error) no step brings it back to Pending while
\* the worker processes the job's remaining files.
C34_JobNeverBackToPending ==
    [][\A j \in DOMAIN jobs :
          jobs[j].status # PENDING => jobs'[j].status # PENDING]_vars

\* C35: whenever a (root, path) key is in the in-flight set, the status the
\* store holds for the key is InProcess, under any interleaving of
\* queue_file_analysis calls with the worker's steps.
C35_InFlightIsInProcess ==
    \A k \in processing : k \in DOMAIN status /\ status[k] = IN_PROCESS

\* C38: in every reachable state a job whose status is Analyzed has no
\* error_message: job.error_message is set only while at least one file of
\* the job has status Error.
C38_MessageOnlyWhileFileInError ==
    \A j \in DOMAIN jobs :
        /\ jobs[j].status = ANALYZED => jobs[j].error_message = NoneVal
        /\ jobs[j].error_message # NoneVal
               => \E p \in DOMAIN job_file_status[j] : job_file_status[j][p] = ERROR

\* C24: every write to the status store (status map, error map, queue,
\* in-flight set) and to the job registry (job records, per-file statuses)
\* is made while the lock of the component that owns it is held by the
\* writer, the writes of queue_file_analysis and create_job included.
C24_EveryWriteUnderLock ==
    unguarded = {}

\* ------------------------------------------------- cancelling the worker

\* the task stands at an await that can suspend it, where a cancellation is
\* delivered: the lock at the top of the loop or before a mark (waiters left
\* from the idle sleep), the sleep, the executor's future. Once the future
\* is done nobody holds or waits for the lock, so the result is recorded and
\* the finally clause runs without a suspension.
Suspended(task) == task # "finally"

\* the key stays in the in-flight set when the task is cancelled in the try block
AfterCancel_KeepsKey(task) == processing

\* the in-flight set after CancelledError is raised in the task standing at
\* task: inside the try block (the await of the executor) the finally
\* clause discards the key; before the try block no key was added
AfterCancel(task) ==
    IF task \in {"executor", "result"} THEN processing \ {Key(entry.rel_path)}
    ELSE processing

\* the status is written as Error when the task is cancelled in the try block
\* (CancelledError caught by "except Exception")
Cleanup_RecordsError ==
    /\ cleanups < MaxCleanups
    /\ ~NoLiveTask(processing_task)
    /\ Suspended(processing_task)
    /\ processing' = AfterCancel(processing_task)
    /\ IF processing_task \in {"executor", "result"}
       THEN /\ status' = Put(status, Key(entry.rel_path), ERROR)
            /\ errors' = Put(errors, Key(entry.rel_path), "")
            /\ ReportToJob(entry.job_id, entry.rel_path, ERROR, "")
       ELSE UNCHANGED <<registry, status, errors>>
    /\ lock' = "free"
    /\ processing_task' = "done"
    /\ entry' = NoEntry
    /\ result' = NoneVal
    /\ live_tasks' = live_tasks - 1
    /\ cleanups' = cleanups + 1
    /\ UNCHANGED <<queue, enqueued, invoked, ruga, query, callhist, executing, outcomes,
                   late, tickets, dequeued, last_ticket, ncalls, unguarded, reads>>

\* AnalysisService.cleanup: cancel the task if it has not ended and await it;
\* a process_file_for_metadata call in the executor thread runs on
Cleanup ==
    /\ cleanups < MaxCleanups
    /\ ~NoLiveTask(processing_task)
    /\ Suspended(processing_task)
    /\ processing' = AfterCancel(processing_task)
    /\ lock' = "free"
    /\ processing_task' = "done"
    /\ entry' = NoEntry
    /\ result' = NoneVal
    /\ live_tasks' = live_tasks - 1
    /\ cleanups' = cleanups + 1
    /\ UNCHANGED <<registry, status, errors, queue, enqueued, invoked, ruga, query,
                   callhist, executing, outcomes, late, tickets, dequeued, last_ticket,
                   ncalls, unguarded, reads>>

\* the process_file_for_metadata calls on rel_path that no task awaits any more
Orphans(rel_path) ==
    executing[rel_path]
        - (IF processing_task = "executor" /\ entry.rel_path = rel_path THEN 1 ELSE 0)

\* a process_file_for_metadata call whose task was cancelled comes to its end
OrphanExtractor ==
    \E rel_path \in DOMAIN executing, saved \in BOOLEAN :
        /\ Orphans(rel_path) > 0
        /\ executing' = Fewer(executing, rel_path)
        /\ ruga' = IF saved THEN ruga \cup {rel_path} ELSE ruga
        /\ UNCHANGED <<registry, store, worker, query, callhist, live_tasks, outcomes,
                       late, tickets, dequeued, last_ticket, cleanups, ncalls, unguarded, reads>>

LifecycleNext ==
    \/ Enqueue
    \/ StartWorker
    \/ WorkerIdle
    \/ WorkerWake
    \/ WorkerDequeue
    \/ WorkerMarkAnalyzed
    \/ WorkerMarkProcessing
    \/ Extractor
    \/ WorkerRecord
    \/ WorkerFinally
    \/ Cleanup
    \/ OrphanExtractor

LifecycleSpec == Init /\ [][LifecycleNext]_vars

C15_OneLiveWorker ==
    /\ live_tasks <= 1
    /\ live_tasks = 1 <=> ~NoLiveTask(processing_task)

\* a worker started after cleanup cancelled the first one is extracting
C15_Witness ==
    /\ cleanups = 1
    /\ live_tasks = 1
    /\ processing_task = "executor"
    /\ dequeued = 2

\* ------------------------------------------------------------ Status Query

\* the tracked status is consulted whatever has_ruga_metadata answers
AfterRugaCheck_TrackedFirst(has_ruga) == "lock"

\* what get_file_status does with the answer of has_ruga_metadata
AfterRugaCheck(has_ruga) == IF has_ruga THEN "return" ELSE "lock"

\* a file without an entry is taken to be waiting
TrackedStatus_PendingDefault(rel_path) ==
    IF Key(rel_path) \in DOMAIN status THEN status[Key(rel_path)] ELSE PENDING

\* the status get_file_status finds under the lock, NOT_FOUND for no entry
TrackedStatus(rel_path) ==
    IF Key(rel_path) \in DOMAIN status THEN status[Key(rel_path)] ELSE NOT_FOUND

\* the message stored for the key is returned whatever the tracked status is
TrackedError_AnyStatus(rel_path) ==
    IF Key(rel_path) \in DOMAIN errors THEN errors[Key(rel_path)] ELSE NoneVal

\* the message get_file_status returns next to the tracked status
TrackedError(rel_path) ==
    IF TrackedStatus(rel_path) = ERROR /\ Key(rel_path) \in DOMAIN errors
    THEN errors[Key(rel_path)]
    ELSE NoneVal

\* get_file_status up to the lock: return Analyzed for a file with a .ruga
\* file, else go on to the tracked status
GetFileStatusCheck ==
    \E rel_path \in Paths :
        /\ reader = NoReader
        /\ IF AfterRugaCheck(has_ruga_metadata(rel_path)) = "return"
           THEN /\ reply' = [rel_path |-> rel_path, has_ruga |-> has_ruga_metadata(rel_path),
                             status |-> ANALYZED, error_msg |-> NoneVal]
                /\ UNCHANGED reader
           ELSE /\ reader' = [rel_path |-> rel_path, has_ruga |-> has_ruga_metadata(rel_path)]
                /\ UNCHANGED reply
        /\ UNCHANGED <<registry, store, worker, ruga, callhist, runhist, job_lock,
                       job_reader>>

\* get_file_status inside the lock: the tracked status and its message
GetFileStatusRead ==
    /\ reader # NoReader
    /\ lock = "free"
    /\ reply' = [rel_path |-> reader.rel_path, has_ruga |-> reader.has_ruga,
                 status |-> TrackedStatus(reader.rel_path),
                 error_msg |-> TrackedError(reader.rel_path)]
    /\ reader' = NoReader
    /\ UNCHANGED <<registry, store, worker, ruga, callhist, runhist, job_lock, job_reader>>

QueryNext ==
    \/ Enqueue
    \/ StartWorker
    \/ WorkerIdle
    \/ WorkerWake
    \/ WorkerDequeue
    \/ WorkerMarkAnalyzed
    \/ WorkerMarkProcessing
    \/ Extractor
    \/ WorkerRecord
    \/ WorkerFinally
    \/ ProcessFolder
    \/ GetFileStatusCheck
    \/ GetFileStatusRead

QuerySpec == Init /\ [][QueryNext]_vars

\* --------------------------------------------- properties of the status query

\* C9: get_file_status returns (Analyzed, no message) whenever
\* has_ruga_metadata is true for the file, whatever the status store holds
\* for the key.
C9_RugaWins ==
    reply.has_ruga => (reply.status = ANALYZED /\ reply.error_msg = NoneVal)

\* the call answered for a file whose store entry is a stale Error
C9_Witness ==
    /\ reply.has_ruga
    /\ reply.status = ANALYZED
    /\ Key(reply.rel_path) \in DOMAIN status
    /\ status[Key(reply.rel_path)] = ERROR
    /\ Key(reply.rel_path) \in DOMAIN errors

\* C10: with no .ruga file, get_file_status returns the status the store
\* tracks for the key at that moment, and NotFound for a key that was never
\* enqueued.
C10_TrackedElseNotFound ==
    [][(reader # NoReader /\ reader' = NoReader /\ ~reader.has_ruga)
       => reply'.status =
            IF \E e \in DOMAIN enqueued : e.rel_path = reader.rel_path
            THEN status[Key(reader.rel_path)]
            ELSE NOT_FOUND]_vars

\* the call found the file in the middle of its extraction
C10_Witness ==
    /\ ~reply.has_ruga
    /\ reply.status = IN_PROCESS
    /\ reader = NoReader
    /\ processing_task = "executor"
    /\ entry.rel_path = reply.rel_path

\* C16: the status store's lock is never held across the
\* process_file_for_metadata call: while the worker awaits the executor the
\* lock is free, so enqueue and get_file_status calls go through.
C16_LockFreeDuringExtraction ==
    processing_task = "executor" => lock = "free" /\ executing # EmptyMap

\* during an extraction a get_file_status call took the lock and answered
\* InProcess for the file in the executor, and an entry waits in the queue
C16_Witness ==
    /\ processing_task = "executor"
    /\ executing # EmptyMap
    /\ lock = "free"
    /\ queue # <<>>
    /\ reader = NoReader
    /\ reply.rel_path = entry.rel_path
    /\ reply.status = IN_PROCESS

\* C37: get_file_status returns a message only together with status Error,
\* and then the message the store holds for the key: after a failed file is
\* enqueued again (Pending, then InProcess) or has got its .ruga file, the
\* old message still stored for the key is not returned.
C37_MessageOnlyWithError ==
    /\ [](reply.error_msg # NoneVal => reply.status = ERROR)
    /\ [][(reader # NoReader /\ reader' = NoReader /\ reply'.error_msg # NoneVal)
            => /\ status[Key(reader.rel_path)] = ERROR
               /\ reply'.error_msg = errors[Key(reader.rel_path)]]_vars

\* a file that failed was enqueued again: the call answered Pending and no
\* message while the store still holds the message of the failure
C37_Witness ==
    /\ reader = NoReader
    /\ ~reply.has_ruga
    /\ reply.status = PENDING
    /\ reply.error_msg = NoneVal
    /\ status[Key(reply.rel_path)] = PENDING
    /\ Key(reply.rel_path) \in DOMAIN errors
    /\ errors[Key(reply.rel_path)] = "boom"

\* C25: when the worker finds the queue empty it releases the status
\* store's lock before it idles: the lock is free for the whole idle wait,
\* so a get_file_status call (or any other user of the lock) is not blocked
\* while the worker idles.
C25_LockFreeWhileIdle ==
    processing_task = "sleep" => lock = "free"

\* C26: once the worker has finished an entry whose key it added to the
\* in-flight set, the key is no longer in the set, on every exit path:
\* success, None result, raised exception, and cancellation during the
\* extraction. The set holds the key of the entry in the try block and
\* nothing else.
C26_KeyLeavesInFlightSet ==
    processing =
        IF processing_task \in {"executor", "result", "finally"}
        THEN {Key(entry.rel_path)}
        ELSE {}

\* the task was cancelled during an extraction that is still running, and
\* the in-flight set is empty
C26_Witness ==
    /\ cleanups = 1
    /\ processing_task = "done"
    /\ executing # EmptyMap
    /\ Total(ncalls) = 1
    /\ processing = {}

\* C30: with the single worker the in-flight set is empty every time an
\* entry is popped, so the popped entry is never skipped as a duplicate in
\* flight: it becomes the worker's current entry and goes on to the fast
\* path or to the executor, also when the same file was enqueued again
\* while it was being extracted.
C30_SkipBranchNeverTaken ==
    [][dequeued' = dequeued + 1
       => /\ processing = {}
          /\ entry' = queue[1]
          /\ processing_task' \in {"mark_analyzed", "mark_processing"}]_vars

\* a file enqueued again during its own failing extraction was popped and
\* handed to the executor a second time
C30_Witness ==
    /\ processing_task = "executor"
    /\ dequeued = 2
    /\ Total(enqueued) = 2
    /\ late
    /\ TimesKeyEnqueued(entry.rel_path) = 2
    /\ Calls(entry.rel_path) = 2
    /\ errors[Key(entry.rel_path)] = "boom"

\* ------------------------------------------- failures and their messages

MessageNext ==
    \/ CreateJob
    \/ Enqueue
    \/ StartWorker
    \/ WorkerIdle
    \/ WorkerWake
    \/ WorkerDequeue
    \/ WorkerMarkAnalyzed
    \/ WorkerMarkProcessing
    \/ ExtractorAnyMessage
    \/ WorkerRecord
    \/ WorkerFinally

MessageSpec == Init /\ [][MessageNext]_vars

\* the worker records what the executor delivered for its entry
Records == processing_task = "result" /\ processing_task' = "finally"

\* C27: after a successful extraction the error map holds no message for
\* the key; after a failed one it holds exactly the message of that failure,
\* which replaces the message of an earlier failure; the messages of other
\* keys are not touched.
C27_ErrorMessageReplaced ==
    [][Records =>
          /\ IF result = "record"
             THEN Key(entry.rel_path) \notin DOMAIN errors'
             ELSE /\ Key(entry.rel_path) \in DOMAIN errors'
                  /\ errors'[Key(entry.rel_path)] = result
          /\ \A k \in Keys \ {Key(entry.rel_path)} :
                 /\ k \in DOMAIN errors' <=> k \in DOMAIN errors
                 /\ k \in DOMAIN errors => errors'[k] = errors[k]]_vars

\* the second extraction of a file raised "boom" after the first had
\* returned None: the error map holds "boom" for the key
C27_Witness ==
    /\ processing_task = "finally"
    /\ dequeued = 2
    /\ result = "boom"
    /\ errors[Key(entry.rel_path)] = "boom"
    /\ \E e \in DOMAIN enqueued :
           /\ e.rel_path = entry.rel_path
           /\ <<e, ReturnedNone>> \in outcomes
    /\ Calls(entry.rel_path) = 2

\* the worker writes a status for its entry into the status store
Writes ==
    \/ processing_task = "mark_analyzed" /\ processing_task' = "loop"
    \/ processing_task = "mark_processing" /\ processing_task' = "executor"
    \/ Records

\* C28: for an entry with a job id, each status the worker writes to the
\* status store for the file (InProcess, then Analyzed or Error, or Analyzed
\* for a file with a .ruga file) is also the status the job holds for the
\* entry's relative path after the step, and on Error the job's
\* error_message is that failure's message; an entry without a job id
\* changes nothing in the job registry.
C28_WorkerReportsToJob ==
    [][Writes =>
          IF entry.job_id = NoneVal
          THEN UNCHANGED <<jobs, job_files, job_file_status>>
          ELSE /\ job_file_status'[entry.job_id][entry.rel_path]
                     = status'[Key(entry.rel_path)]
               /\ status'[Key(entry.rel_path)] = ERROR
                     => jobs'[entry.job_id].error_message = result]_vars

\* ------------------------------------- cancellation seen by jobs and readers

CancelNext ==
    \/ CreateJob
    \/ Enqueue
    \/ StartWorker
    \/ WorkerIdle
    \/ WorkerWake
    \/ WorkerDequeue
    \/ WorkerMarkAnalyzed
    \/ WorkerMarkProcessing
    \/ Extractor
    \/ WorkerRecord
    \/ WorkerFinally
    \/ Cleanup
    \/ OrphanExtractor

CancelSpec == Init /\ [][CancelNext]_vars

\* the store says InProcess for relative path p and no task works on an entry of p
Stranded(p) ==
    /\ Key(p) \in DOMAIN status
    /\ status[Key(p)] = IN_PROCESS
    /\ entry.rel_path # p

\* C23: cancelling the worker writes no status: what the store and the jobs
\* say stays as it was, so a file cancelled during its extraction stays
\* InProcess. From then on the store's InProcess changes only by a new
\* queue_file_analysis call for the file (to Pending) or once a task works on
\* an entry of the file again, the job's InProcess only once a task works on
\* an entry of that job and file, and as long as the file has no .ruga file
\* get_file_status finds InProcess for it.
C23_CancelledStaysInProcess ==
    /\ [][cleanups' = cleanups + 1
            => UNCHANGED <<status, errors, jobs, job_files, job_file_status>>]_vars
    /\ [][\A p \in Paths :
            (Stranded(p) /\ status'[Key(p)] # IN_PROCESS)
                => /\ status'[Key(p)] = PENDING
                   /\ Total(enqueued') = Total(enqueued) + 1]_vars
    /\ [][\A j \in DOMAIN jobs : \A p \in DOMAIN job_file_status[j] :
            (job_file_status[j][p] = IN_PROCESS /\ job_file_status'[j][p] # IN_PROCESS)
                => entry.job_id = j /\ entry.rel_path = p]_vars
    /\ [](\A p \in Paths :
            (Stranded(p) /\ ~has_ruga_metadata(p))
                => /\ AfterRugaCheck(has_ruga_metadata(p)) = "lock"
                   /\ TrackedStatus(p) = IN_PROCESS
                   /\ TrackedError(p) = NoneVal)

\* the task was cancelled during the extraction of a job's file: the task is
\* done, the key has left the in-flight set, the thread still runs, and the
\* store and the job both say InProcess
C23_Witness ==
    /\ cleanups = 1
    /\ processing_task = "done"
    /\ processing = {}
    /\ \E p \in DOMAIN executing :
           /\ Stranded(p)
           /\ p \notin ruga
           /\ TrackedStatus(p) = IN_PROCESS
           /\ "j1" \in DOMAIN jobs
           /\ p \in job_files["j1"]
           /\ job_file_status["j1"][p] = IN_PROCESS
           /\ jobs["j1"].status = IN_PROCESS

\* ------------------------------------------------ reading the job registry

\* JobService.get_job: self.jobs.get(job_id), the JobInfo object the
\* registry itself holds, or None
GetJob ==
    \E job_id \in JobIds :
        /\ reads' = [reads EXCEPT !.seen =
                        IF job_id \in DOMAIN jobs
                        THEN [j \in {job_id} |-> jobs[j]]
                        ELSE EmptyMap,
                        !.raised = FALSE]
        /\ UNCHANGED <<registry, store, worker, ruga, query, callhist, taskhist,
                       unguarded>>

\* JobService.list_jobs: a new list of the JobInfo objects the registry
\* holds; with include_file_statuses the assignment to job.file_statuses, a
\* field JobInfo does not declare, raises ValueError for the first job
ListJobs ==
    \E include_file_statuses \in BOOLEAN :
        /\ reads' = IF include_file_statuses /\ jobs # EmptyMap
                    THEN [reads EXCEPT !.raised = TRUE]
                    ELSE [reads EXCEPT !.seen = jobs, !.raised = FALSE]
        /\ UNCHANGED <<registry, store, worker, ruga, query, callhist, taskhist,
                       unguarded>>

\* JobService.get_job_files_status: a copy of the job's file statuses, {} for
\* an unknown job
GetJobFilesStatus ==
    \E job_id \in JobIds :
        /\ reads' = [reads EXCEPT !.files =
                        [j \in {job_id} |->
                            IF j \in DOMAIN job_file_status THEN job_file_status[j]
                            ELSE EmptyMap]]
        /\ UNCHANGED <<registry, store, worker, ruga, query, callhist, taskhist,
                       unguarded>>

\* what a JobInfo object returned earlier holds now: it is the registry's
\* own object, so it holds what the registry holds
ReturnedJob(j) == jobs[j]

ReadNext ==
    \/ CreateJob
    \/ UpdateFileStatus
    \/ GetJob
    \/ ListJobs
    \/ GetJobFilesStatus

ReadSpec == Init /\ [][ReadNext]_vars

\* C29: get_job, list_jobs (with or without include_file_statuses) and
\* get_job_files_status leave the queue, the status store, the in-flight set
\* and every job's status, counters, message and file statuses unchanged,
\* and what they returned is a snapshot: it still holds what it held when
\* it was returned, whatever the registry is told afterwards.
C29_ReadsAreSnapshots ==
    /\ [][reads' # reads
            => UNCHANGED <<jobs, job_files, job_file_status, status, errors, queue,
                           processing>>]_vars
    /\ [](\A j \in DOMAIN reads.seen : ReturnedJob(j) = reads.seen[j])

\* --------------------------------------------------------- the two locks
\* The worker's steps are taken apart here at every "async with self.lock"
\* of the status store and at the lock of JobService inside
\* update_job_file_status, and a read of the job registry holds
\* JobService.lock from one step to the next: every interleaving the event
\* loop can produce is among those of these steps.

\* a consumer calls a read of the job registry (get_job, list_jobs or
\* get_job_files_status, each one "async with self.lock") and stands before
\* the lock
JobReadCall ==
    /\ job_reader = NoneVal
    /\ job_reader' = "waiting"
    /\ UNCHANGED <<registry, store, worker, ruga, reader, reply, job_lock, callhist,
                   runhist>>

\* the read is granted JobService.lock
JobReadEnter ==
    /\ job_reader # NoneVal
    /\ job_lock = "free"
    /\ job_lock' = "reader"
    /\ job_reader' = NoneVal
    /\ UNCHANGED <<registry, store, worker, ruga, reader, reply, callhist, runhist>>

\* the read needs the status store's lock before it leaves JobService.lock
JobReadReturn_TakesStoreLock ==
    /\ job_lock # "free"
    /\ lock = "free"
    /\ job_lock' = "free"
    /\ UNCHANGED <<registry, store, worker, ruga, reader, reply, job_reader, callhist,
                   runhist>>

\* the read returns and leaves JobService.lock; it asks for no other lock
JobReadReturn ==
    /\ job_lock # "free"
    /\ job_lock' = "free"
    /\ UNCHANGED <<registry, store, worker, ruga, reader, reply, job_reader, callhist,
                   runhist>>

\* process_queue, fast path: Analyzed is written inside the lock, the lock is
\* left, the job is told next
WorkerStoreAnalyzed ==
    /\ processing_task = "mark_analyzed"
    /\ lock = "free"
    /\ status' = Put(status, Key(entry.rel_path), ANALYZED)
    /\ processing_task' = "report_fast"
    /\ UNCHANGED <<registry, errors, queue, processing, enqueued, lock, entry, result,
                   invoked, ruga, query, callhist, runhist>>

\* process_queue, "Mark as processing": the key and InProcess are written
\* inside the lock, the lock is left, the job is told next
WorkerStoreProcessing ==
    /\ processing_task = "mark_processing"
    /\ lock = "free"
    /\ processing' = processing \cup {Key(entry.rel_path)}
    /\ status' = Put(status, Key(entry.rel_path), IN_PROCESS)
    /\ processing_task' = "report_mark"
    /\ UNCHANGED <<registry, errors, queue, enqueued, lock, entry, result, invoked, ruga,
                   query, callhist, runhist>>

\* the result came from the try block's own lock (a record or None), where
\* the job is told with the lock still held; an exception is recorded in the
\* except clause, which leaves the lock before it tells the job
HeldForReport(res) == IF res \in {"record", ReturnedNone} THEN "worker" ELSE "free"

\* process_queue: what the executor delivered is written to the store
WorkerStoreResult ==
    /\ processing_task = "result"
    /\ lock = "free"
    /\ IF result = "record"
       THEN /\ status' = Put(status, Key(entry.rel_path), ANALYZED)
            /\ errors' = Drop(errors, Key(entry.rel_path))
       ELSE /\ status' = Put(status, Key(entry.rel_path), ERROR)
            /\ errors' = Put(errors, Key(entry.rel_path), result)
    /\ lock' = HeldForReport(result)
    /\ processing_task' = "report_result"
    /\ UNCHANGED <<registry, queue, processing, enqueued, entry, result, invoked, ruga,
                   query, callhist, runhist>>

\* the status the worker tells the job at each of its three report sites
ReportedStatus(task) ==
    IF task = "report_fast" THEN ANALYZED
    ELSE IF task = "report_mark" THEN IN_PROCESS
    ELSE IF result = "record" THEN ANALYZED
    ELSE ERROR

\* where the worker goes on after the report
AfterReport(task) ==
    IF task = "report_fast" THEN "loop"
    ELSE IF task = "report_mark" THEN "executor"
    ELSE "finally"

\* process_queue: "await self.job_service.update_job_file_status(...)", which
\* waits for JobService.lock when the entry has a job id; after the report
\* that follows the mark the file is handed to the executor
WorkerReport ==
    /\ processing_task \in {"report_fast", "report_mark", "report_result"}
    /\ entry.job_id # NoneVal => job_lock = "free"
    /\ ReportToJob(entry.job_id, entry.rel_path, ReportedStatus(processing_task),
                   IF ReportedStatus(processing_task) = ERROR THEN result ELSE NoneVal)
    /\ lock' = "free"
    /\ processing_task' = AfterReport(processing_task)
    /\ entry' = IF processing_task = "report_fast" THEN NoEntry ELSE entry
    /\ IF processing_task = "report_mark"
       THEN /\ invoked' = invoked \cup {entry}
            /\ executing' = More(executing, entry.rel_path)
            /\ ncalls' = More(ncalls, entry.rel_path)
       ELSE UNCHANGED <<invoked, executing, ncalls>>
    /\ UNCHANGED <<store, result, ruga, query, callhist, live_tasks, outcomes, late,
                   tickets, dequeued, last_ticket, cleanups, unguarded, reads>>

\* the orders in which a listing can return the files of S
Orders(S) ==
    {q \in [1..Cardinality(S) -> S] : \A i, k \in 1..Cardinality(S) : q[i] = q[k] => i = k}

\* analyze_folder (main.py) from create_job on, where it awaits nothing: a
\* job over the files found without a .ruga file, every file queued with the
\* job's id in the order of the listing, and the worker started if none is
\* alive; with no such file the job is created and nothing else is done
AnalyzeFolder ==
    \E file_paths \in SUBSET (Paths \ ruga) : \E order \in Orders(file_paths) :
        LET entries == [i \in 1..Len(order) |->
                            [job_id |-> "j1", rel_path |-> order[i],
                             had_ruga |-> has_ruga_metadata(order[i])]]
            new == {entries[i] : i \in 1..Len(order)}
            starts == file_paths # {} /\ NoLiveTask(processing_task)
        IN  /\ jobs = EmptyMap
            /\ create_job("j1", file_paths)
            /\ status' = [k \in DOMAIN status \cup {Key(p) : p \in file_paths} |->
                              IF k \in {Key(p) : p \in file_paths} THEN PENDING
                              ELSE status[k]]
            /\ queue' = queue \o entries
            /\ enqueued' = [e \in DOMAIN enqueued \cup new |->
                              (IF e \in DOMAIN enqueued THEN enqueued[e] ELSE 0)
                              + (IF e \in new THEN 1 ELSE 0)]
            /\ tickets' = tickets \o [i \in 1..Len(order) |-> Total(enqueued) + i]
            /\ late' = (late \/ (file_paths # {} /\ processing_task # NoneVal))
            /\ unguarded' = unguarded \cup {"create_job"}
                              \cup (IF file_paths # {} THEN {"queue_file_analysis"} ELSE {})
            /\ processing_task' = IF starts THEN "loop" ELSE processing_task
            /\ live_tasks' = IF starts THEN live_tasks + 1 ELSE live_tasks
            /\ UNCHANGED <<errors, processing, lock, entry, result, invoked, ruga, query,
                           callhist, executing, outcomes, dequeued, last_ticket, cleanups,
                           ncalls, reads>>

LockNext ==
    \/ AnalyzeFolder
    \/ WorkerIdle
    \/ WorkerWake
    \/ WorkerDequeue
    \/ WorkerStoreAnalyzed
    \/ WorkerStoreProcessing
    \/ Extractor
    \/ WorkerStoreResult
    \/ WorkerReport
    \/ WorkerFinally
    \/ ProcessFolder
    \/ GetFileStatusCheck
    \/ GetFileStatusRead
    \/ JobReadCall
    \/ JobReadEnter
    \/ JobReadReturn

\* the steps of the worker that ask for no lock another coroutine can hold
LockWorkerStep ==
    \/ WorkerIdle
    \/ WorkerWake
    \/ WorkerDequeue
    \/ WorkerStoreAnalyzed
    \/ WorkerStoreProcessing
    \/ Extractor
    \/ WorkerStoreResult
    \/ WorkerFinally

\* the event loop runs every coroutine that can go on, and asyncio.Lock
\* wakes its waiters in the order they came: a coroutine waiting for a lock
\* that is released again and again gets it
LockSpec ==
    /\ Init /\ [][LockNext]_vars
    /\ WF_vars(LockWorkerStep)
    /\ WF_vars(JobReadEnter)
    /\ WF_vars(JobReadReturn)
    /\ SF_vars(WorkerReport)
    /\ SF_vars(GetFileStatusRead)

\* the positions where the worker stands before a lock
WorkerLockRequests ==
    {"mark_analyzed", "mark_processing", "result", "finally",
     "report_fast", "report_mark", "report_result"}

\* C36: the two locks never deadlock. The worker asks for JobService.lock
\* while it holds the status store's lock (after a record or a None result),
\* and whoever holds JobService.lock can return without asking for the
\* store's lock; so under any interleaving of the worker with
\* get_file_status and the reads and updates of the job registry, every
\* lock request is eventually granted.
C36_LockRequestsGranted ==
    /\ [](job_lock # "free" => ENABLED JobReadReturn)
    /\ (reader # NoReader) ~> (reader = NoReader)
    /\ (job_reader # NoneVal) ~> (job_reader = NoneVal)
    /\ \A task \in WorkerLockRequests :
           (processing_task = task) ~> (processing_task # task)

\* the worker holds the store's lock and waits for JobService.lock, which a
\* read of the registry holds, while a get_file_status call waits for the
\* store's lock
C36_Witness ==
    /\ processing_task = "report_result"
    /\ lock = "worker"
    /\ entry.job_id # NoneVal
    /\ job_lock # "free"
    /\ reader # NoReader

====
